---------------------------- MODULE Spec2Model ----------------------------
(***************************************************************************)
(* A model of the toy React of src/react.js: the element model, the fiber  *)
(* heap, the reconciler, the cooperative work loop, the commit phase onto  *)
(* a host DOM, and the useState hook store.                                *)
(*                                                                         *)
(* Encoding.  JavaScript objects live in heaps: `fibers` and `doms` are    *)
(* sequences, an object is its index, and Null (0) is null/undefined.      *)
(* A props object is a function over Keys whose value Undefined marks a    *)
(* key that the object does not have; the reserved key "children" is the   *)
(* field `kids`.  Prop values, hook states and closures are integers: a    *)
(* listener closure is named by the fiber whose render created it, so two  *)
(* renders never produce the same closure.                                 *)
(***************************************************************************)
EXTENDS Integers, Sequences, FiniteSets, TLC

VARIABLES
  fibers,       \* heap of fiber nodes
  doms,         \* heap of host nodes; doms[Container] is the host container
  flushed,      \* _flushedFiberRoot
  wipRoot,      \* _wipFiberRoot
  nextWip,      \* _nextWipFiberNode
  deletions,    \* _wipDeletions
  wipFn,        \* _wipFunctionalFiberNode
  hookIndex,    \* _hookIndex
  scheduled,    \* workLoop is registered with requestIdleCallback
  log,          \* host calls made by the most recent commit
  last,         \* the operation that produced this state
  processed,    \* fibers on which performUnitOfWork has completed, in order
  disp,         \* the dispatch calls made so far
  prevRoot,     \* the committed root that the most recent commit replaced
  hostAtCommit, \* the attached host tree as the most recent commit left it
  nRender,      \* number of render() calls made
  app,          \* the element that the application mounts
  commits       \* number of commits that ran to the end

vars == <<fibers, doms, flushed, wipRoot, nextWip, deletions, wipFn, hookIndex,
          scheduled, log, last, processed, disp, prevRoot, hostAtCommit,
          nRender, app, commits>>

(***************************************************************************)
(* Bounds of the model.                                                    *)
(***************************************************************************)
MaxCalls == 3
MaxBudget == 2

(***************************************************************************)
(* Values.                                                                 *)
(***************************************************************************)
Null == 0
Undefined == -1000
Container == 1

Keys == {"id", "nodeValue", "name", "initial", "onClick"}
KeyOrder == <<"id", "nodeValue", "name", "initial", "onClick">>

NoProps == [k \in Keys |-> Undefined]
WithProp(p, k, v) == [p EXCEPT ![k] = v]

(***************************************************************************)
(* Utils and the element model.                                            *)
(***************************************************************************)
\* A JavaScript value handed to createElement as a child: an element
\* (a record with type/props/kids), null, or a primitive (string, number).
JsNull == [type |-> "#null", props |-> NoProps, kids |-> <<>>]
Prim(v) == [type |-> "#prim", props |-> WithProp(NoProps, "nodeValue", v), kids |-> <<>>]

\* typeof x === "object": true of elements and of null, false of primitives
isObject(x) == x.type # "#prim"

Components == {"Counter", "Hello", "List", "Swap"}

\* f instanceof Function
isFunction(t) == t \in Components

\* x != null, for an element slot
notNull(x) == x.type # "#null"

\* createTextElement(text) is createElement("TEXT_ELEMENT", {nodeValue: text})
createTextElement(x) ==
  [type |-> "TEXT_ELEMENT",
   props |-> WithProp(NoProps, "nodeValue", x.props["nodeValue"]),
   kids |-> <<>>]

createElement(type, props, children) ==
  [type |-> type,
   props |-> props,
   kids |-> [i \in 1..Len(children) |->
               IF isObject(children[i]) THEN children[i]
               ELSE createTextElement(children[i])]]

\* key.startsWith("on"), over the keys of the model
isEvent(key) == key \in {"onClick"}

\* key.toLowerCase().substring(2)
getEventType(key) == IF key = "onClick" THEN "click" ELSE "?"

isProperty(key) == key # "children" /\ ~isEvent(key)

(***************************************************************************)
(* The application components rendered by the model.  A component is      *)
(* called with its props, the values its useState calls returned (st) and  *)
(* a name for the closures it creates (self).                              *)
(***************************************************************************)
\* the `initial` argument of each useState call of the component, in order
HookInits(type, props) ==
  IF type \in {"Counter", "List", "Swap"} THEN <<props["initial"]>> ELSE <<>>

Leaf(t) == createElement(t, NoProps, <<>>)

Hello(props) == createElement("h1", NoProps, <<Prim(props["name"])>>)

Counter(st, self) ==
  createElement("button", WithProp(NoProps, "onClick", self), <<Prim(st[1])>>)

\* a list that shows its first st[1] items
ListItems == <<Leaf("a"), Leaf("b"), Leaf("c")>>
Clamp(n, lo, hi) == IF n < lo THEN lo ELSE IF n > hi THEN hi ELSE n
List(st) ==
  createElement("div", NoProps, SubSeq(ListItems, 1, Clamp(st[1], 0, 3)))

\* a view whose children change kind with the state
SwapKids ==
  << <<Leaf("a"), Leaf("b")>>,
     <<Leaf("a"), Leaf("u")>>,
     <<Leaf("i"), Leaf("b")>>,
     <<createElement("Hello", WithProp(NoProps, "name", 7), <<>>), Leaf("b")>> >>
Swap(st) == createElement("div", NoProps, SwapKids[Clamp(st[1], 0, 3) + 1])

\* fiber.type(fiber.props)
View(type, props, st, self) ==
  CASE type = "Counter" -> Counter(st, self)
    [] type = "Hello" -> Hello(props)
    [] type = "List" -> List(st)
    [] OTHER -> Swap(st)

\* the actions that the handlers of a component pass to its dispatch function
Actions(type) == IF type = "Counter" THEN {"inc", "dbl"} ELSE {"inc", "dec"}
Apply(a, c) ==
  CASE a = "inc" -> c + 1
    [] a = "dec" -> c - 1
    [] OTHER -> c * 2

\* the elements handed to render()
Static ==
  createElement("div", WithProp(NoProps, "id", 1),
    <<createElement("h1", NoProps, <<Prim(5)>>)>>)
Mount(type, initial) == createElement(type, WithProp(NoProps, "initial", initial), <<>>)
Boxed == createElement("div", WithProp(NoProps, "id", 1), <<Mount("Counter", 3)>>)
Roots ==
  { Static, Boxed, Mount("Counter", 0),
    Mount("List", 1), Mount("List", 3),
    Mount("Swap", 0), Mount("Swap", 3) }


(***************************************************************************)
(* The host surface (the DOM the code calls into).                         *)
(***************************************************************************)
NewDom(tag) ==
  [tag |-> tag, attrs |-> NoProps, listeners |-> {}, kids |-> <<>>, parent |-> Null]

Op(op, node, key, val, child) ==
  [op |-> op, node |-> node, key |-> key, val |-> val, child |-> child]

Without(seq, x) == SelectSeq(seq, LAMBDA y : y # x)

\* parent.appendChild(child): a node that is attached elsewhere moves
appendChild(ds, p, c) ==
  LET old == ds[c].parent
      d1 == IF old = Null THEN ds
            ELSE [ds EXCEPT ![old].kids = Without(@, c)]
  IN [d1 EXCEPT ![p].kids = Append(@, c), ![c].parent = p]

\* parent.removeChild(child), for a child of parent
removeChild(ds, p, c) ==
  [ds EXCEPT ![p].kids = Without(@, c), ![c].parent = Null]

\* One host call on H = [doms, log, err]; a call made after an exception
\* was thrown never happens.  removeChild throws NotFoundError when the
\* node is not a child of the parent.
Do(H, o) ==
  IF H.err # "none" THEN H
  ELSE IF o.op = "removeChild" /\ H.doms[o.child].parent # o.node
  THEN [H EXCEPT !.err = "NotFoundError", !.log = Append(@, o)]
  ELSE
    [H EXCEPT
      !.log = Append(@, o),
      !.doms =
        CASE o.op = "set" -> [@ EXCEPT ![o.node].attrs[o.key] = o.val]
          [] o.op = "delete" -> [@ EXCEPT ![o.node].attrs[o.key] = Undefined]
          [] o.op = "addListener" ->
               [@ EXCEPT ![o.node].listeners = @ \cup {<<getEventType(o.key), o.val>>}]
          [] o.op = "removeListener" ->
               [@ EXCEPT ![o.node].listeners = @ \ {<<getEventType(o.key), o.val>>}]
          [] o.op = "appendChild" -> appendChild(@, o.node, o.child)
          [] OTHER -> removeChild(@, o.node, o.child)]

RECURSIVE DoAll(_, _)
DoAll(H, ops) == IF ops = <<>> THEN H ELSE DoAll(Do(H, Head(ops)), Tail(ops))

(***************************************************************************)
(* updateDom                                                               *)
(***************************************************************************)
\* isNew that takes every key for changed
isNew_Always(prev, next, key) == TRUE

\* isNew with the comparison the wrong way round
isNew_Same(prev, next, key) == prev[key] = next[key]

isNew(prev, next, key) == prev[key] # next[key]
isGone(next, key) == next[key] = Undefined

\* Object.keys(props), in insertion order
ObjectKeys(props) == SelectSeq(KeyOrder, LAMBDA k : props[k] # Undefined)

\* the host calls of updateDom(dom, prevProps, nextProps), in order
updateDom(dom, prevProps, nextProps) ==
  LET goneL == SelectSeq(ObjectKeys(prevProps),
                 LAMBDA k : isEvent(k) /\
                            (isGone(nextProps, k) \/ isNew(prevProps, nextProps, k)))
      goneP == SelectSeq(ObjectKeys(prevProps),
                 LAMBDA k : isProperty(k) /\ isGone(nextProps, k))
      newP == SelectSeq(ObjectKeys(nextProps),
                 LAMBDA k : isProperty(k) /\ isNew(prevProps, nextProps, k))
      newL == SelectSeq(ObjectKeys(nextProps),
                 LAMBDA k : isEvent(k) /\ isNew(prevProps, nextProps, k))
  IN [i \in 1..Len(goneL) |-> Op("removeListener", dom, goneL[i], prevProps[goneL[i]], Null)]
     \o [i \in 1..Len(goneP) |-> Op("delete", dom, goneP[i], Undefined, Null)]
     \o [i \in 1..Len(newP) |-> Op("set", dom, newP[i], nextProps[newP[i]], Null)]
     \o [i \in 1..Len(newL) |-> Op("addListener", dom, newL[i], nextProps[newL[i]], Null)]

(***************************************************************************)
(* Fibers.  S is the engine state a unit of work reads and writes:         *)
(* [fibers, doms, deletions, wipFn, hookIndex, next, processed, err].      *)
(***************************************************************************)
\* a fiber that is tagged PLACEMENT whatever reconcileChildren decided
Fiber_Placed(type, props, kids, dom, parent, alt, effectTag) ==
  [type |-> type, props |-> props, kids |-> kids, dom |-> dom,
   parent |-> parent, child |-> Null, sibling |-> Null, alt |-> alt,
   effectTag |-> "PLACEMENT", hooks |-> <<>>]

Fiber(type, props, kids, dom, parent, alt, effectTag) ==
  [type |-> type, props |-> props, kids |-> kids, dom |-> dom,
   parent |-> parent, child |-> Null, sibling |-> Null, alt |-> alt,
   effectTag |-> effectTag, hooks |-> <<>>]

RECURSIVE firstSibling(_, _)
firstSibling(fs, f) ==
  IF f = Null THEN Null
  ELSE IF fs[f].sibling # Null THEN fs[f].sibling
  ELSE firstSibling(fs, fs[f].parent)

\* getNext that does not climb to the siblings of the ancestors
getNext_NoClimb(fs, f) ==
  IF fs[f].child # Null THEN fs[f].child ELSE fs[f].sibling

getNext(fs, f) ==
  IF fs[f].child # Null THEN fs[f].child ELSE firstSibling(fs, f)

\* One iteration of the loop of reconcileChildren and the rest of the loop.
\* prevSibling.sibling = ... throws TypeError when prevSibling is null.
RECURSIVE reconcileLoop(_, _, _, _, _, _)
reconcileLoop(S, wip, elements, index, altNode, prevSibling) ==
  IF ~(index < Len(elements) \/ altNode # Null) THEN S
  ELSE
    LET element == IF index < Len(elements) THEN elements[index + 1] ELSE JsNull
        same == altNode # Null /\ notNull(element)
                /\ element.type = S.fibers[altNode].type
        made == same \/ notNull(element)
        newFiber ==
          IF same
          THEN Fiber(S.fibers[altNode].type, element.props, element.kids,
                     S.fibers[altNode].dom, wip, altNode, "UPDATE")
          ELSE Fiber(element.type, element.props, element.kids,
                     Null, wip, Null, "PLACEMENT")
        newFiberNode == IF made THEN Len(S.fibers) + 1 ELSE Null
        f1 == IF made THEN Append(S.fibers, newFiber) ELSE S.fibers
        deleted == ~same /\ altNode # Null
        f2 == IF deleted THEN [f1 EXCEPT ![altNode].effectTag = "DELETION"] ELSE f1
        d2 == IF deleted THEN Append(S.deletions, altNode) ELSE S.deletions
        nextAlt == IF altNode # Null THEN S.fibers[altNode].sibling ELSE Null
        S2 == [S EXCEPT !.fibers = f2, !.deletions = d2]
    IN IF index = 0
       THEN reconcileLoop([S2 EXCEPT !.fibers[wip].child = newFiberNode],
                          wip, elements, index + 1, nextAlt, newFiberNode)
       ELSE IF prevSibling = Null
       THEN [S2 EXCEPT !.err = "TypeError"]
       ELSE reconcileLoop([S2 EXCEPT !.fibers[prevSibling].sibling = newFiberNode],
                          wip, elements, index + 1, nextAlt, newFiberNode)

\* reconcileChildren that pairs the first element with the second old child
reconcileChildren_Shifted(S, wipFiberNode, elements) ==
  LET alt == S.fibers[wipFiberNode].alt
      first == IF alt = Null THEN Null ELSE S.fibers[alt].child
      altNode == IF first = Null THEN Null ELSE S.fibers[first].sibling
  IN reconcileLoop(S, wipFiberNode, elements, 0, altNode, Null)

reconcileChildren(S, wipFiberNode, elements) ==
  LET alt == S.fibers[wipFiberNode].alt
      altNode == IF alt = Null THEN Null ELSE S.fibers[alt].child
  IN reconcileLoop(S, wipFiberNode, elements, 0, altNode, Null)

\* createDom that leaves the props of the fiber off the new host node
createDom_NoProps(ds, fiber) ==
  Append(ds, NewDom(IF fiber.type = "TEXT_ELEMENT" THEN "#text" ELSE fiber.type))

\* document.createTextNode("") or document.createElement(type), then
\* updateDom(dom, {}, fiber.props); returns the new heap of host nodes
createDom(ds, fiber) ==
  LET dom == Len(ds) + 1
      node == NewDom(IF fiber.type = "TEXT_ELEMENT" THEN "#text" ELSE fiber.type)
      H == DoAll([doms |-> Append(ds, node), log |-> <<>>, err |-> "none"],
                 updateDom(dom, NoProps, fiber.props))
  IN H.doms

\* updateVanillaComponent that attaches the host node it creates at once
updateVanillaComponent_Eager(S, fiber) ==
  LET S1 == IF S.fibers[fiber].dom = Null
            THEN [S EXCEPT !.doms = appendChild(createDom(S.doms, S.fibers[fiber]),
                                                Container, Len(S.doms) + 1),
                           !.fibers[fiber].dom = Len(S.doms) + 1]
            ELSE S
  IN reconcileChildren(S1, fiber, S1.fibers[fiber].kids)

updateVanillaComponent(S, fiber) ==
  LET S1 == IF S.fibers[fiber].dom = Null
            THEN [S EXCEPT !.doms = createDom(S.doms, S.fibers[fiber]),
                           !.fibers[fiber].dom = Len(S.doms) + 1]
            ELSE S
  IN reconcileChildren(S1, fiber, S1.fibers[fiber].kids)

(***************************************************************************)
(* Hooks                                                                   *)
(***************************************************************************)
\* runActions that applies only the last action of the queue
runActions_LastOnly(actions, state) ==
  IF actions = <<>> THEN state ELSE Apply(actions[Len(actions)], state)

RECURSIVE runActions(_, _)
runActions(actions, state) ==
  IF actions = <<>> THEN state
  ELSE runActions(Tail(actions), Apply(Head(actions), state))

\* useState that carries the old state over and drops the queued actions
useState_NoQueue(fs, wipFunctionalFiberNode, index, initial) ==
  LET alt == fs[wipFunctionalFiberNode].alt
      hasOld == alt # Null /\ index < Len(fs[alt].hooks)
  IN [state |-> IF hasOld THEN fs[alt].hooks[index + 1].state ELSE initial,
      queue |-> <<>>]

\* the hook that the useState call number index (from 0) of the fiber
\* _wipFunctionalFiberNode builds; its state is the value useState returns
useState(fs, wipFunctionalFiberNode, index, initial) ==
  LET alt == fs[wipFunctionalFiberNode].alt
      hasOld == alt # Null /\ index < Len(fs[alt].hooks)
      oldState == IF hasOld THEN fs[alt].hooks[index + 1].state ELSE initial
      actions == IF hasOld THEN fs[alt].hooks[index + 1].queue ELSE <<>>
  IN [state |-> runActions(actions, oldState), queue |-> <<>>]

updateFunctionalComponent(S, fiber) ==
  LET fb == S.fibers[fiber]
      inits == HookInits(fb.type, fb.props)
      hooks == [i \in 1..Len(inits) |-> useState(S.fibers, fiber, i - 1, inits[i])]
      st == [i \in 1..Len(hooks) |-> hooks[i].state]
      children == <<View(fb.type, fb.props, st, fiber)>>
      S1 == [S EXCEPT !.wipFn = fiber, !.hookIndex = Len(inits),
                      !.fibers[fiber].hooks = hooks]
  IN reconcileChildren(S1, fiber, children)

performUnitOfWork(S) ==
  LET fiberNode == S.next
      S1 == IF isFunction(S.fibers[fiberNode].type)
            THEN updateFunctionalComponent(S, fiberNode)
            ELSE updateVanillaComponent(S, fiberNode)
  IN IF S1.err # "none" THEN S1
     ELSE [S1 EXCEPT !.next = getNext(S1.fibers, fiberNode),
                     !.processed = Append(@, fiberNode)]

(***************************************************************************)
(* Commit                                                                  *)
(***************************************************************************)
RECURSIVE domParentOf(_, _)
domParentOf(fs, f) == IF fs[f].dom # Null THEN fs[f].dom ELSE domParentOf(fs, fs[f].parent)

\* commitDeletion reads fiber.dom of a null child when a fiber without a
\* host node has no child
RECURSIVE commitDeletion(_, _, _, _)
commitDeletion(fs, H, fiber, domParent) ==
  IF fiber = Null THEN [H EXCEPT !.err = "TypeError"]
  ELSE IF fs[fiber].dom # Null
  THEN Do(H, Op("removeChild", domParent, "", Undefined, fs[fiber].dom))
  ELSE commitDeletion(fs, H, fs[fiber].child, domParent)

RECURSIVE commitNode(_, _, _)
commitNode(fs, H, fiber) ==
  IF fiber = Null \/ H.err # "none" THEN H
  ELSE
    LET fb == fs[fiber]
        domParent == domParentOf(fs, fb.parent)
        H1 == IF fb.effectTag = "PLACEMENT" /\ fb.dom # Null
              THEN Do(H, Op("appendChild", domParent, "", Undefined, fb.dom))
              ELSE IF fb.effectTag = "UPDATE" /\ fb.dom # Null
              THEN DoAll(H, updateDom(fb.dom, fs[fb.alt].props, fb.props))
              ELSE IF fb.effectTag = "DELETION"
              THEN commitDeletion(fs, H, fiber, domParent)
              ELSE H
    IN commitNode(fs, commitNode(fs, H1, fb.child), fb.sibling)

RECURSIVE commitAll(_, _, _)
commitAll(fs, H, list) ==
  IF list = <<>> THEN H ELSE commitAll(fs, commitNode(fs, H, Head(list)), Tail(list))

\* the host after commit(): _wipDeletions.forEach(commitNode), then
\* commitNode(_wipFiberRoot.child)
commit(fs, ds, dels, root) ==
  commitNode(fs,
             commitAll(fs, [doms |-> ds, log |-> <<>>, err |-> "none"], dels),
             fs[root].child)

(***************************************************************************)
(* The state machine                                                       *)
(***************************************************************************)
\* the host tree below a node, as a value
RECURSIVE HostTree(_, _)
HostTree(ds, d) ==
  [tag |-> ds[d].tag, attrs |-> ds[d].attrs, listeners |-> ds[d].listeners,
   kids |-> [i \in 1..Len(ds[d].kids) |-> HostTree(ds, ds[d].kids[i])]]

Outcome(op, committing, err) == [op |-> op, commit |-> committing, err |-> err]

\* the globals of src/react.js as the module's top level leaves them, with
\* workLoop installed and an empty container
Init ==
  /\ fibers = <<>>
  /\ doms = <<NewDom("#container")>>
  /\ flushed = Null
  /\ wipRoot = Null
  /\ nextWip = Null
  /\ deletions = <<>>
  /\ wipFn = Null
  /\ hookIndex = Null
  /\ scheduled = TRUE
  /\ log = <<>>
  /\ last = Outcome("init", FALSE, "none")
  /\ processed = <<>>
  /\ disp = <<>>
  /\ prevRoot = Null
  /\ hostAtCommit = HostTree(doms, Container)
  /\ nRender = 0
  /\ app \in Roots
  /\ commits = 0

\* the root fiber that render() builds
renderRoot(reactElement) ==
  Fiber("#root", NoProps, <<reactElement>>, Container, Null, Null, "NONE")

Render(reactElement) ==
  /\ nRender + Len(disp) < MaxCalls
  /\ reactElement = app
  /\ fibers' = Append(fibers, renderRoot(reactElement))
  /\ wipRoot' = Len(fibers) + 1
  /\ nextWip' = Len(fibers) + 1
  /\ nRender' = nRender + 1
  /\ last' = Outcome("render", FALSE, "none")
  /\ UNCHANGED <<doms, flushed, deletions, wipFn, hookIndex, scheduled, log,
                 processed, disp, prevRoot, hostAtCommit, app, commits>>

\* a root that continues from the pass in progress instead of the committed root
setStateRoot_FromWip(fs, flushedFiberRoot) ==
  Fiber("#root", fs[flushedFiberRoot].props, fs[flushedFiberRoot].kids,
        fs[flushedFiberRoot].dom, Null,
        IF wipRoot # Null THEN wipRoot ELSE flushedFiberRoot, "NONE")

\* the root fiber that setState builds
setStateRoot(fs, flushedFiberRoot) ==
  Fiber("#root", fs[flushedFiberRoot].props, fs[flushedFiberRoot].kids,
        fs[flushedFiberRoot].dom, Null, flushedFiberRoot, "NONE")

\* setState(action) of hook number index of a fiber that was rendered:
\* push the action, then read _flushedFiberRoot.dom, which throws TypeError
\* while nothing is committed
Dispatch(fiber, index, action) ==
  /\ nRender + Len(disp) < MaxCalls
  /\ fiber \in 1..Len(fibers)
  /\ index \in 1..Len(fibers[fiber].hooks)
  /\ action \in Actions(fibers[fiber].type)
  /\ LET pushed == [fibers EXCEPT ![fiber].hooks[index].queue = Append(@, action)]
         ok == flushed # Null
     IN /\ fibers' = IF ok THEN Append(pushed, setStateRoot(pushed, flushed)) ELSE pushed
        /\ wipRoot' = IF ok THEN Len(fibers) + 1 ELSE wipRoot
        /\ nextWip' = IF ok THEN Len(fibers) + 1 ELSE nextWip
        /\ deletions' = IF ok THEN <<>> ELSE deletions
        /\ last' = Outcome("dispatch", FALSE, IF ok THEN "none" ELSE "TypeError")
        /\ disp' = Append(disp, [fiber |-> fiber, index |-> index, action |-> action,
                                 commits |-> commits, flushed |-> flushed])
  /\ UNCHANGED <<doms, flushed, wipFn, hookIndex, scheduled, log, processed,
                 prevRoot, hostAtCommit, nRender, app, commits>>

\* a loop that looks at the remaining time before each unit of work
RECURSIVE runUnits_CheckFirst(_, _, _)
runUnits_CheckFirst(S, budget, units) ==
  IF S.next = Null \/ S.err # "none" \/ (budget > 0 /\ units + 1 >= budget) THEN S
  ELSE runUnits_CheckFirst(performUnitOfWork(S), budget, units + 1)

\* a loop that keeps the pending fiber it started the last unit with when
\* it yields, so that the next invocation processes that fiber again
RECURSIVE runUnits_RedoOnYield(_, _, _)
runUnits_RedoOnYield(S, budget, units) ==
  IF S.next = Null \/ S.err # "none" THEN S
  ELSE LET S1 == performUnitOfWork(S)
       IN IF S1.err = "none" /\ units + 1 = budget /\ S1.next # Null
          THEN [S1 EXCEPT !.next = S.next]
          ELSE runUnits_RedoOnYield(S1, budget, units + 1)

\* the while loop of workLoop: budget is the number of units after which
\* deadline.timeRemaining() < 1 (0: it never is)
RECURSIVE runUnits(_, _, _)
runUnits(S, budget, units) ==
  IF S.next = Null \/ S.err # "none" \/ (units > 0 /\ units = budget) THEN S
  ELSE runUnits(performUnitOfWork(S), budget, units + 1)

Budgets == 0..MaxBudget

\* workLoop that calls commit whenever a work-in-progress root exists
workLoop_CommitEarly(budget) ==
  LET S0 == [fibers |-> fibers, doms |-> doms, deletions |-> deletions,
             wipFn |-> wipFn, hookIndex |-> hookIndex, next |-> nextWip,
             processed |-> processed, err |-> "none"]
      S1 == runUnits(S0, budget, 0)
      doCommit == S1.err = "none" /\ wipRoot # Null
      H == IF doCommit THEN commit(S1.fibers, S1.doms, S1.deletions, wipRoot)
           ELSE [doms |-> S1.doms, log |-> log, err |-> S1.err]
  IN [S |-> S1, H |-> H, doCommit |-> doCommit]

\* the body of workLoop up to and including commit(): the engine state after
\* the while loop, the host after commit, and whether commit was called
workLoop(budget) ==
  LET S0 == [fibers |-> fibers, doms |-> doms, deletions |-> deletions,
             wipFn |-> wipFn, hookIndex |-> hookIndex, next |-> nextWip,
             processed |-> processed, err |-> "none"]
      S1 == runUnits(S0, budget, 0)
      doCommit == S1.err = "none" /\ S1.next = Null /\ wipRoot # Null
      H == IF doCommit THEN commit(S1.fibers, S1.doms, S1.deletions, wipRoot)
           ELSE [doms |-> S1.doms, log |-> log, err |-> S1.err]
  IN [S |-> S1, H |-> H, doCommit |-> doCommit]

WorkLoop(budget) ==
  /\ scheduled
  /\ \E R \in {workLoop(budget)} :
     LET S1 == R.S
         H == R.H
         doCommit == R.doCommit
         done == doCommit /\ H.err = "none"
     IN /\ fibers' = S1.fibers
        /\ doms' = H.doms
        /\ deletions' = S1.deletions
        /\ wipFn' = S1.wipFn
        /\ hookIndex' = S1.hookIndex
        /\ nextWip' = S1.next
        /\ processed' = S1.processed
        /\ log' = H.log
        /\ flushed' = IF done THEN wipRoot ELSE flushed
        /\ wipRoot' = IF done THEN Null ELSE wipRoot
        /\ prevRoot' = IF done THEN flushed ELSE prevRoot
        /\ commits' = IF done THEN commits + 1 ELSE commits
        /\ hostAtCommit' = IF doCommit THEN HostTree(H.doms, Container) ELSE hostAtCommit
        /\ scheduled' = (H.err = "none")
        /\ last' = Outcome("workLoop", doCommit, H.err)
  /\ UNCHANGED <<disp, nRender, app>>

Next ==
  \/ \E e \in Roots : Render(e)
  \/ \E f \in 1..Len(fibers) : \E i \in 1..2 : \E a \in {"inc", "dec", "dbl"} : Dispatch(f, i, a)
  \/ \E b \in Budgets : WorkLoop(b)

Spec == Init /\ [][Next]_vars

(***************************************************************************)
(* Vocabulary of the properties                                            *)
(***************************************************************************)
Range(seq) == {seq[i] : i \in 1..Len(seq)}

\* the sibling chain that starts at a fiber
RECURSIVE Chain(_, _)
Chain(fs, f) == IF f = Null THEN <<>> ELSE <<f>> \o Chain(fs, fs[f].sibling)

\* the fibers of the tree below a root, the root included
RECURSIVE Below(_, _)
Below(fs, f) ==
  IF f = Null THEN {}
  ELSE {f} \cup UNION {Below(fs, c) : c \in Range(Chain(fs, fs[f].child))}

\* kind and props at every position of a fiber tree
RECURSIVE FiberShape(_, _)
FiberShape(fs, f) ==
  LET ch == Chain(fs, fs[f].child)
  IN [type |-> fs[f].type, props |-> fs[f].props,
      kids |-> [i \in 1..Len(ch) |-> FiberShape(fs, ch[i])]]

\* a host tree with each listener reduced to its event type
RECURSIVE HostShape(_, _)
HostShape(ds, d) ==
  [tag |-> ds[d].tag, attrs |-> ds[d].attrs,
   events |-> {l[1] : l \in ds[d].listeners},
   kids |-> [i \in 1..Len(ds[d].kids) |-> HostShape(ds, ds[d].kids[i])]]

\* the host tree that an element tree describes, every component element
\* replaced by the element it returns on its first render
RECURSIVE ExpectedHost(_)
ExpectedHost(e) ==
  IF e.type \in Components
  THEN ExpectedHost(View(e.type, e.props, HookInits(e.type, e.props), 1))
  ELSE [tag |-> IF e.type = "TEXT_ELEMENT" THEN "#text" ELSE e.type,
        attrs |-> [k \in Keys |-> IF k = "onClick" THEN Undefined ELSE e.props[k]],
        events |-> IF e.props["onClick"] # Undefined THEN {"click"} ELSE {},
        kids |-> [i \in 1..Len(e.kids) |-> ExpectedHost(e.kids[i])]]

Committed == last.op = "workLoop" /\ last.commit /\ last.err = "none"

\* the host nodes handed to removeChild / appendChild by the last commit
Removed == SelectSeq(log, LAMBDA o : o.op = "removeChild")
Appended == SelectSeq(log, LAMBDA o : o.op = "appendChild")

\* a host fiber whose new child elements are a strict prefix, by kind, of
\* its previous children
OldKids(p) == Chain(fibers, fibers[fibers[p].alt].child)
StrictPrefix(p) ==
  /\ fibers[p].alt # Null
  /\ fibers[p].type \notin Components
  /\ Len(fibers[p].kids) >= 1
  /\ Len(fibers[p].kids) < Len(OldKids(p))
  /\ \A i \in 1..Len(fibers[p].kids) : fibers[p].kids[i].type = fibers[OldKids(p)[i]].type

(***************************************************************************)
(* C1.  First mount: after render(element, container) on an empty          *)
(* container, one complete pass and its commit, with no dispatch in        *)
(* between, the host tree under the container is the element tree with     *)
(* every component replaced by what it returns: same tags, same parent/    *)
(* child relation and child order, and each host node carries exactly the  *)
(* non-children props of its element.                                      *)
(***************************************************************************)
C1_FirstMount ==
  (Committed /\ commits = 1 /\ Len(disp) = 0)
    => HostShape(doms, Container).kids = <<ExpectedHost(app)>>

C1_Witness ==
  /\ Committed /\ commits = 1 /\ Len(disp) = 0
  /\ app = Boxed
  /\ Len(doms[Container].kids) = 1

(***************************************************************************)
(* C2.  Deletion: when a re-render gives a parent a child list that is a   *)
(* strict prefix of its previous one, the pass completes, and its commit   *)
(* calls removeChild exactly once for the host node of each dropped child  *)
(* and for no other node, and neither appends nor removes a retained       *)
(* child's host node.                                                      *)
(***************************************************************************)
C2_Deletion ==
  /\ ~(last.err = "TypeError" /\ nextWip # Null /\ StrictPrefix(nextWip))
  /\ Committed =>
       \A p \in Below(fibers, flushed) :
         StrictPrefix(p) =>
           LET old == OldKids(p)
               n == Len(fibers[p].kids)
               dropped == {fibers[old[i]].dom : i \in (n + 1)..Len(old)}
               kept == {fibers[old[i]].dom : i \in 1..n}
           IN /\ Len(Removed) = Cardinality(dropped)
              /\ {o.child : o \in Range(Removed)} = dropped
              /\ \A o \in Range(Appended) : o.child \notin kept

(***************************************************************************)
(* C3.  Idempotence: when the same element tree (same kind and props at    *)
(* every position) is rendered and committed twice in a row, the second    *)
(* pass tags every non-root fiber UPDATE and the second commit makes no    *)
(* host call at all.                                                       *)
(***************************************************************************)
C3_Idempotent ==
  (Committed /\ prevRoot # Null
     /\ FiberShape(fibers, flushed) = FiberShape(fibers, prevRoot))
    => /\ \A f \in Below(fibers, flushed) \ {flushed} : fibers[f].effectTag = "UPDATE"
       /\ log = <<>>

(***************************************************************************)
(* C4.  render(element, container) installs, as work-in-progress root and  *)
(* as pending fiber, a fresh root fiber whose host node is the container,  *)
(* whose children are [element], and whose previous generation is the      *)
(* current committed root (absent only when nothing is committed).         *)
(***************************************************************************)
C4_RenderRoot ==
  last.op = "render" =>
    /\ wipRoot = Len(fibers)
    /\ nextWip = wipRoot
    /\ fibers[wipRoot].dom = Container
    /\ fibers[wipRoot].kids = <<app>>
    /\ fibers[wipRoot].alt = flushed

(***************************************************************************)
(* C5.  State threading: the first render of a component that calls        *)
(* useState(initial) gets initial; after exactly one dispatch(f) issued    *)
(* from that committed render and one further complete pass, the second    *)
(* render gets f(initial).                                                 *)
(***************************************************************************)
OneDispatchThenPass ==
  /\ Committed /\ commits = 2 /\ nRender = 1
  /\ Len(disp) = 1 /\ disp[1].commits = 1
  /\ disp[1].fiber \in Below(fibers, prevRoot)

C5_StateThreading ==
  OneDispatchThenPass =>
    LET a == disp[1].fiber
        i == disp[1].index
        initial == HookInits(fibers[a].type, fibers[a].props)[i]
    IN /\ fibers[a].hooks[i].state = initial
       /\ \E f \in Below(fibers, flushed) :
            /\ fibers[f].alt = a
            /\ fibers[f].hooks[i].state =
                 (CASE disp[1].action = "inc" -> initial + 1
                    [] disp[1].action = "dec" -> initial - 1
                    [] disp[1].action = "dbl" -> initial * 2)

C5_Witness ==
  /\ OneDispatchThenPass
  /\ app = Mount("Counter", 0)
  /\ disp[1].action = "inc"
  /\ \E f \in Below(fibers, flushed) :
       fibers[f].alt = disp[1].fiber /\ fibers[f].hooks[1].state = 1

(***************************************************************************)
(* C6.  Multiple queued actions: all the dispatch calls made on a hook     *)
(* cell of the committed tree are applied by the next committed render,    *)
(* in call order, as a left fold over the committed value; none is         *)
(* dropped or reordered (3, then c + 1, then c * 2, gives 8).              *)
(***************************************************************************)
\* the actions dispatched on cell i of fiber a, in call order
DispatchedOn(a, i) ==
  LET calls == SelectSeq(disp, LAMBDA d : d.fiber = a /\ d.index = i)
  IN [k \in 1..Len(calls) |-> calls[k].action]

RECURSIVE FoldLeft(_, _)
FoldLeft(actions, c) ==
  IF actions = <<>> THEN c
  ELSE FoldLeft(Tail(actions),
                CASE Head(actions) = "inc" -> c + 1
                  [] Head(actions) = "dec" -> c - 1
                  [] Head(actions) = "dbl" -> c * 2)

C6_QueuedActions ==
  Committed =>
    \A f \in Below(fibers, flushed) :
      (fibers[f].alt # Null) =>
        \A i \in 1..Len(fibers[f].hooks) :
          fibers[f].hooks[i].state =
            FoldLeft(DispatchedOn(fibers[f].alt, i), fibers[fibers[f].alt].hooks[i].state)

C6_Witness ==
  /\ Committed
  /\ \E f \in Below(fibers, flushed) :
       /\ fibers[f].alt # Null
       /\ Len(fibers[f].hooks) = 1
       /\ fibers[fibers[f].alt].hooks[1].state = 3
       /\ DispatchedOn(fibers[f].alt, 1) = <<"inc", "dbl">>
       /\ fibers[fibers[f].alt].hooks[1].queue = <<"inc", "dbl">>
       /\ fibers[f].hooks[1].state = 8

(***************************************************************************)
(* C7.  Insertion: when a re-render extends a parent's child list by one   *)
(* element at the end, only the fibers of the new subtree are placed, the  *)
(* commit appends exactly one node to the parent's host node (the new      *)
(* child's), removes nothing, and leaves the previous children attached    *)
(* where they were.                                                        *)
(***************************************************************************)
OneMore(p) ==
  /\ fibers[p].alt # Null
  /\ fibers[p].type \notin Components
  /\ Len(OldKids(p)) >= 1
  /\ Len(fibers[p].kids) = Len(OldKids(p)) + 1
  /\ \A i \in 1..Len(OldKids(p)) : fibers[p].kids[i].type = fibers[OldKids(p)[i]].type

C7_Insertion ==
  Committed =>
    \A p \in Below(fibers, flushed) :
      OneMore(p) =>
        LET old == OldKids(p)
            new == Chain(fibers, fibers[p].child)
            b == new[Len(new)]
        IN /\ Len(new) = Len(old) + 1
           /\ \A f \in Below(fibers, p) \ {p} :
                fibers[f].effectTag = "PLACEMENT" <=> f \in Below(fibers, b)
           /\ \A i \in 1..Len(old) : fibers[new[i]].dom = fibers[old[i]].dom
           /\ fibers[b].dom \notin {fibers[g].dom : g \in Below(fibers, prevRoot)}
           /\ SelectSeq(Appended, LAMBDA o : o.node = fibers[p].dom)
                = <<Op("appendChild", fibers[p].dom, "", Undefined, fibers[b].dom)>>
           /\ Removed = <<>>
           /\ doms[fibers[p].dom].kids
                = [i \in 1..Len(new) |-> fibers[new[i]].dom]

C7_Witness ==
  /\ Committed
  /\ app = Mount("List", 1)
  /\ \E p \in Below(fibers, flushed) :
       /\ OneMore(p)
       /\ Len(doms[fibers[p].dom].kids) = 2
       /\ Len(Appended) = 1

RECURSIVE Attached(_, _)
Attached(ds, d) == {d} \cup UNION {Attached(ds, c) : c \in Range(ds[d].kids)}

C9_DispatchSchedules ==
  last.op = "dispatch" =>
    LET d == disp[Len(disp)]
        q == fibers[d.fiber].hooks[d.index].queue
    IN /\ Len(q) >= 1 /\ q[Len(q)] = d.action
       /\ last.err = "none"
       /\ flushed # Null
       /\ wipRoot = Len(fibers)
       /\ nextWip = wipRoot
       /\ fibers[wipRoot].dom = fibers[flushed].dom
       /\ fibers[wipRoot].props = fibers[flushed].props
       /\ fibers[wipRoot].kids = fibers[flushed].kids
       /\ fibers[wipRoot].alt = flushed
       /\ deletions = <<>>

(***************************************************************************)
(* C10.  Liveness: once a pass has started, if workLoop keeps being        *)
(* invoked and no further call replaces the pass, the pass is eventually   *)
(* processed to the end and committed.  The fibers of a pass are finitely  *)
(* many, so the pass is completed exactly when every invocation of         *)
(* workLoop that finds a pass pending advances it (one more fiber is       *)
(* processed, or the pass is committed) and leaves workLoop registered     *)
(* for the next invocation; stated here as that step property.             *)
(***************************************************************************)
C10_PassCommits ==
  [][(last'.op = "workLoop" /\ (nextWip # Null \/ wipRoot # Null))
       => /\ scheduled'
          /\ \/ Len(processed') > Len(processed)
             \/ commits' = commits + 1]_vars

(***************************************************************************)
(* The functions of src/react.js called on their own.  UnitSpec draws the  *)
(* arguments of one call of reconcileChildren, of updateDom or of          *)
(* createElement in its initial state and makes that call.                 *)
(***************************************************************************)
MaxKids == 3

SeqsUpTo(S, n) == UNION {[1..k -> S] : k \in 0..n}

\* the kinds of the old children, and the new child slots
UnitKinds == {"a", "b"}
UnitSlots ==
  {Leaf("a"), Leaf("b"), createElement("a", WithProp(NoProps, "id", 1), <<>>), JsNull}

\* the globals that a call on its own neither reads nor writes
UnitIdle ==
  /\ flushed = Null /\ wipRoot = Null
  /\ deletions = <<>> /\ wipFn = Null /\ hookIndex = Null
  /\ scheduled = TRUE /\ log = <<>> /\ processed = <<>> /\ disp = <<>>
  /\ prevRoot = Null /\ nRender = 0 /\ commits = 0

\* a committed parent (fiber 1) with a child of each kind of old, each with
\* its host node attached, and the parent's work-in-progress fiber (the last
\* fiber) about to be reconciled against elements
ReconInit ==
  \E old \in SeqsUpTo(UnitKinds, MaxKids) :
  \E elements \in SeqsUpTo(UnitSlots, MaxKids) :
  \E hasAlt \in BOOLEAN :
    LET n == Len(old)
        parent == [Fiber("div", NoProps, [i \in 1..n |-> Leaf(old[i])], 2, Null, Null,
                         "PLACEMENT")
                     EXCEPT !.child = IF n > 0 THEN 2 ELSE Null]
        kid(i) == [Fiber(old[i], NoProps, <<>>, i + 2, 1, Null, "PLACEMENT")
                     EXCEPT !.sibling = IF i < n THEN i + 2 ELSE Null]
        wip == Fiber("div", NoProps, elements, 2, Null, IF hasAlt THEN 1 ELSE Null,
                     "UPDATE")
    IN /\ (~hasAlt => old = <<>>)
       /\ fibers = <<parent>> \o [i \in 1..n |-> kid(i)] \o <<wip>>
       /\ doms = << [NewDom("#container") EXCEPT !.kids = <<2>>],
                    [NewDom("div") EXCEPT !.kids = [i \in 1..n |-> i + 2],
                                          !.parent = Container] >>
                 \o [i \in 1..n |-> [NewDom(old[i]) EXCEPT !.parent = 2]]
       /\ nextWip = n + 2
       /\ app = Leaf("div")
       /\ last = Outcome("call reconcileChildren", FALSE, "none")
       /\ hostAtCommit = HostTree(doms, Container)
       /\ UnitIdle

\* reconcileChildren(wipFiberNode, wipFiberNode.props.children)
Reconcile ==
  /\ last.op = "call reconcileChildren"
  /\ \E S \in {reconcileChildren(
                 [fibers |-> fibers, doms |-> doms, deletions |-> deletions,
                  wipFn |-> wipFn, hookIndex |-> hookIndex, next |-> nextWip,
                  processed |-> processed, err |-> "none"],
                 nextWip, fibers[nextWip].kids)} :
       /\ fibers' = S.fibers
       /\ deletions' = S.deletions
       /\ last' = Outcome("reconcileChildren", FALSE, S.err)
  /\ UNCHANGED <<doms, flushed, wipRoot, nextWip, wipFn, hookIndex, scheduled, log,
                 processed, disp, prevRoot, hostAtCommit, nRender, app, commits>>

\* the props objects handed to updateDom
UnitProps ==
  {[k \in Keys |-> CASE k = "id" -> i [] k = "name" -> n [] k = "onClick" -> c
                     [] OTHER -> Undefined] :
     i \in {Undefined, 1, 2}, n \in {Undefined, 1, 2}, c \in {Undefined, 1, 2}}

\* a committed host fiber (1) whose host node was created from prevProps and
\* attached, and its UPDATE fiber (2) with nextProps
DomInit ==
  \E prevProps \in UnitProps : \E nextProps \in UnitProps :
    LET old == Fiber("div", prevProps, <<>>, 2, Null, Null, "PLACEMENT")
    IN /\ fibers = <<old, Fiber("div", nextProps, <<>>, 2, Null, 1, "UPDATE")>>
       /\ doms = appendChild(createDom(<<NewDom("#container")>>, old), Container, 2)
       /\ nextWip = Null
       /\ app = Leaf("div")
       /\ last = Outcome("call updateDom", FALSE, "none")
       /\ hostAtCommit = HostTree(doms, Container)
       /\ UnitIdle

\* updateDom(fiber.dom, fiber.alt.props, fiber.props), as commitNode calls it
UpdateDom ==
  /\ last.op = "call updateDom"
  /\ \E H \in {DoAll([doms |-> doms, log |-> <<>>, err |-> "none"],
                     updateDom(fibers[2].dom, fibers[fibers[2].alt].props,
                               fibers[2].props))} :
       /\ doms' = H.doms
       /\ log' = H.log
       /\ last' = Outcome("updateDom", FALSE, H.err)
  /\ UNCHANGED <<fibers, flushed, wipRoot, nextWip, deletions, wipFn, hookIndex,
                 scheduled, processed, disp, prevRoot, hostAtCommit, nRender, app,
                 commits>>

\* the child arguments handed to createElement: an element, a string or
\* number, or null
UnitChildren == {Leaf("a"), Prim(5), JsNull}

\* app holds the arguments (type, props, ...children) of the call
ElementInit ==
  \E props \in {NoProps, WithProp(NoProps, "id", 1)} :
  \E children \in SeqsUpTo(UnitChildren, MaxKids) :
    /\ app = [type |-> "div", props |-> props, kids |-> children]
    /\ fibers = <<>>
    /\ doms = <<NewDom("#container")>>
    /\ nextWip = Null
    /\ last = Outcome("call createElement", FALSE, "none")
    /\ hostAtCommit = HostTree(doms, Container)
    /\ UnitIdle

\* app becomes the element that createElement(type, props, ...children) returns
CreateElement ==
  /\ last.op = "call createElement"
  /\ app' = createElement(app.type, app.props, app.kids)
  /\ last' = Outcome("createElement", FALSE, "none")
  /\ UNCHANGED <<fibers, doms, flushed, wipRoot, nextWip, deletions, wipFn,
                 hookIndex, scheduled, log, processed, disp, prevRoot,
                 hostAtCommit, nRender, commits>>

\* the effect tags handed to commitNode: the three that reconcileChildren
\* writes, none ("NONE", as on a root fiber), and one that is none of these
CommitTags == {"PLACEMENT", "UPDATE", "DELETION", "NONE", "MOVE"}

\* a committed parent (fiber 1) with one committed child (fiber 2), and a
\* fiber of the next generation of that child (fiber 3) carrying the tag
CommitInit ==
  \E tag \in CommitTags : \E props \in {NoProps, WithProp(NoProps, "id", 1)} :
    LET parent == [Fiber("div", NoProps, <<Leaf("a")>>, 2, Null, Null, "PLACEMENT")
                     EXCEPT !.child = 2]
        old == Fiber("a", NoProps, <<>>, 3, 1, Null, "PLACEMENT")
        new == Fiber("a", props, <<>>, 3, 1, 2, tag)
    IN /\ fibers = <<parent, old, new>>
       /\ doms = << [NewDom("#container") EXCEPT !.kids = <<2>>],
                    [NewDom("div") EXCEPT !.kids = <<3>>, !.parent = Container],
                    [NewDom("a") EXCEPT !.parent = 2] >>
       /\ nextWip = 3
       /\ app = Leaf("div")
       /\ last = Outcome("call commitNode", FALSE, "none")
       /\ hostAtCommit = HostTree(doms, Container)
       /\ UnitIdle

\* commitNode(fiber)
CommitNode ==
  /\ last.op = "call commitNode"
  /\ \E H \in {commitNode(fibers, [doms |-> doms, log |-> <<>>, err |-> "none"],
                          nextWip)} :
       /\ doms' = H.doms
       /\ log' = H.log
       /\ last' = Outcome("commitNode", FALSE, H.err)
  /\ UNCHANGED <<fibers, flushed, wipRoot, nextWip, deletions, wipFn, hookIndex,
                 scheduled, processed, disp, prevRoot, hostAtCommit, nRender, app,
                 commits>>

\* The loop of reconcileChildren in the variant src/unnamed/part_001, from
\* iteration i on: oldFiber is assigned once, before the loop, and is the
\* same fiber in every iteration.  Returns the engine state and the number
\* of iterations that were completed.
RECURSIVE part001_reconcileLoop(_, _, _, _, _, _)
part001_reconcileLoop(S, fiber, elements, i, oldFiber, prevSibling) ==
  IF ~(i < Len(elements) \/ oldFiber # Null) THEN [S |-> S, iterations |-> i]
  ELSE
    LET element == IF i < Len(elements) THEN elements[i + 1] ELSE JsNull
        sameType == oldFiber # Null /\ notNull(element)
                    /\ element.type = S.fibers[oldFiber].type
        made == sameType \/ notNull(element)
        newFiber ==
          IF sameType
          THEN Fiber(element.type, element.props, element.kids,
                     S.fibers[oldFiber].dom, fiber, oldFiber, "UPDATE")
          ELSE Fiber(element.type, element.props, element.kids,
                     Null, fiber, Null, "PLACEMENT")
        newFiberNode == IF made THEN Len(S.fibers) + 1 ELSE Null
        f1 == IF made THEN Append(S.fibers, newFiber) ELSE S.fibers
        deleted == ~sameType /\ oldFiber # Null
        f2 == IF deleted THEN [f1 EXCEPT ![oldFiber].effectTag = "DELETION"] ELSE f1
        d2 == IF deleted THEN Append(S.deletions, oldFiber) ELSE S.deletions
        S2 == [S EXCEPT !.fibers = f2, !.deletions = d2]
    IN IF i = 0
       THEN part001_reconcileLoop([S2 EXCEPT !.fibers[fiber].child = newFiberNode],
                                  fiber, elements, i + 1, oldFiber, newFiberNode)
       ELSE IF prevSibling = Null
       THEN [S |-> [S2 EXCEPT !.err = "TypeError"], iterations |-> i]
       ELSE part001_reconcileLoop([S2 EXCEPT !.fibers[prevSibling].sibling = newFiberNode],
                                  fiber, elements, i + 1, oldFiber, newFiberNode)

part001_reconcileChildren(S, fiber, elements) ==
  LET alt == S.fibers[fiber].alt
      oldFiber == IF alt = Null THEN Null ELSE S.fibers[alt].child
  IN part001_reconcileLoop(S, fiber, elements, 0, oldFiber, Null)

\* reconcileChildren(fiber, elements) of src/unnamed/part_001
Reconcile001 ==
  /\ last.op = "call reconcileChildren"
  /\ \E R \in {part001_reconcileChildren(
                 [fibers |-> fibers, doms |-> doms, deletions |-> deletions,
                  wipFn |-> wipFn, hookIndex |-> hookIndex, next |-> nextWip,
                  processed |-> processed, err |-> "none"],
                 nextWip, fibers[nextWip].kids)} :
       /\ fibers' = R.S.fibers
       /\ deletions' = R.S.deletions
       /\ last' = [op |-> "part_001 reconcileChildren", commit |-> FALSE,
                   err |-> R.S.err, iterations |-> R.iterations]
  /\ UNCHANGED <<doms, flushed, wipRoot, nextWip, wipFn, hookIndex, scheduled, log,
                 processed, disp, prevRoot, hostAtCommit, nRender, app, commits>>

UnitInit == ReconInit \/ DomInit \/ ElementInit \/ CommitInit

UnitNext == Reconcile \/ UpdateDom \/ CreateElement \/ CommitNode \/ Reconcile001

UnitSpec == UnitInit /\ [][UnitNext]_vars

(***************************************************************************)
(* C11.  The scheduler never terminates itself: every invocation of        *)
(* workLoop, whatever happens during it (no work, partial work, a commit,  *)
(* a unit of work that fails), ends with workLoop registered again with    *)
(* the idle-callback facility.                                             *)
(***************************************************************************)
C11_SchedulerNeverStops == last.op = "workLoop" => scheduled

(***************************************************************************)
(* C12.  reconcileChildren tags by position only.  When the call returns,  *)
(* for every position i: if a new element and an old fiber both exist at   *)
(* i with the same kind, the new fiber at i is tagged UPDATE, carries the  *)
(* new props, reuses the old fiber's host node and has the old fiber as    *)
(* previous generation; otherwise an element at i gives a new fiber        *)
(* tagged PLACEMENT with no host node and no previous generation, and an   *)
(* old fiber at i is tagged DELETION, is exactly once in the pending       *)
(* deletions, and is not linked into the new child list.                   *)
(***************************************************************************)
\* the reconciled fiber, its new child slots and its old children
ReconWip == nextWip
ReconElements == fibers[ReconWip].kids
ReconOld ==
  IF fibers[ReconWip].alt = Null THEN <<>>
  ELSE Chain(fibers, fibers[fibers[ReconWip].alt].child)

\* the fiber made for slot i: fibers are allocated in slot order, after the
\* reconciled fiber, one for each slot that is not null
ReconNewAt(i) == ReconWip + Cardinality({j \in 1..i : notNull(ReconElements[j])})

Times(seq, x) == Cardinality({k \in 1..Len(seq) : seq[k] = x})

C12_TagsByPosition ==
  (last.op = "reconcileChildren" /\ last.err = "none") =>
    LET new == Chain(fibers, fibers[ReconWip].child)
        slots == {i \in 1..Len(ReconElements) : notNull(ReconElements[i])}
    IN /\ new = [k \in 1..Cardinality(slots) |-> ReconWip + k]
       /\ \A i \in 1..MaxKids :
            LET has == i \in slots
                o == IF i <= Len(ReconOld) THEN ReconOld[i] ELSE Null
                same == has /\ o # Null /\ ReconElements[i].type = fibers[o].type
                f == fibers[ReconNewAt(i)]
            IN /\ same =>
                    /\ f.effectTag = "UPDATE" /\ f.props = ReconElements[i].props
                    /\ f.type = fibers[o].type
                    /\ f.dom = fibers[o].dom /\ f.alt = o
                    /\ fibers[o].effectTag # "DELETION" /\ Times(deletions, o) = 0
               /\ (has /\ ~same) =>
                    /\ f.effectTag = "PLACEMENT" /\ f.props = ReconElements[i].props
                    /\ f.type = ReconElements[i].type
                    /\ f.dom = Null /\ f.alt = Null
               /\ (o # Null /\ ~same) =>
                    /\ fibers[o].effectTag = "DELETION"
                    /\ Times(deletions, o) = 1
                    /\ o \notin Range(new)
       /\ Len(deletions) = Cardinality({o \in Range(ReconOld) :
                                          fibers[o].effectTag = "DELETION"})

\* an update, a replacement and a dropped old child in one call
C12_Witness ==
  /\ last.op = "reconcileChildren" /\ last.err = "none"
  /\ Len(ReconOld) = 3 /\ Len(ReconElements) = 2
  /\ fibers[ReconNewAt(1)].effectTag = "UPDATE"
  /\ fibers[ReconNewAt(2)].effectTag = "PLACEMENT"
  /\ deletions = <<ReconOld[2], ReconOld[3]>>

(***************************************************************************)
(* C13.  reconcileChildren completes without error for every combination   *)
(* of new element sequence and old sibling chain: any pair of lengths (an  *)
(* old chain longer than the new sequence by two or more, an empty new     *)
(* sequence) and any null slot in the new sequence.                        *)
(***************************************************************************)
C13_ReconcileCompletes == last.op = "reconcileChildren" => last.err = "none"

(***************************************************************************)
(* C14.  Deleting a component fiber: when a fiber of the pending           *)
(* deletions has no host node of its own, commit removes the host node of  *)
(* its first host-bearing descendant (following child pointers) from the   *)
(* host node of the deleted fiber's nearest host-bearing ancestor, and     *)
(* after the commit that host node is no longer attached under the         *)
(* container.                                                              *)
(***************************************************************************)
RECURSIVE HostDescendant(_, _)
HostDescendant(fs, f) ==
  IF fs[f].dom # Null THEN f ELSE HostDescendant(fs, fs[f].child)

C14_ComponentDeletion ==
  Committed =>
    \A d \in Range(deletions) :
      fibers[d].dom = Null =>
        LET node == fibers[HostDescendant(fibers, d)].dom
            domParent == domParentOf(fibers, fibers[d].parent)
        IN /\ Op("removeChild", domParent, "", Undefined, node) \in Range(log)
           /\ node \notin Attached(doms, Container)

(***************************************************************************)
(* C15.  Within one pass that is not abandoned, fibers are processed in    *)
(* pre-order (a parent before its children, siblings left to right; the    *)
(* next fiber is the child if any, else the next sibling of the nearest    *)
(* ancestor-or-self that has one, else null), and every fiber of the       *)
(* work-in-progress tree is processed exactly once, so every component     *)
(* function is called exactly once per pass for its fiber.                 *)
(***************************************************************************)
RECURSIVE PreOrder(_, _)
PreOrder(fs, f) ==
  IF f = Null THEN <<>>
  ELSE <<f>> \o PreOrder(fs, fs[f].child) \o PreOrder(fs, fs[f].sibling)

\* the fibers processed so far in the pass of root r, in order
PassProcessed(r) == SelectSeq(processed, LAMBDA f : f >= r)

C15_PreOrderOnce ==
  /\ wipRoot # Null =>
       LET order == PreOrder(fibers, wipRoot)
           done == PassProcessed(wipRoot)
       IN /\ Len(done) <= Len(order)
          /\ done = SubSeq(order, 1, Len(done))
          /\ nextWip = IF Len(done) < Len(order) THEN order[Len(done) + 1] ELSE Null
  /\ Committed => PassProcessed(flushed) = PreOrder(fibers, flushed)

\* a committed pass over a tree where the walk climbs from a leaf to the
\* sibling of an ancestor
C15_Witness ==
  /\ Committed
  /\ app = Mount("Swap", 3)
  /\ Len(PreOrder(fibers, flushed)) = 7
  /\ PassProcessed(flushed) = PreOrder(fibers, flushed)
  /\ \E f \in Below(fibers, flushed) :
       /\ isFunction(fibers[f].type) /\ fibers[f].sibling # Null
       /\ Times(processed, f) = 1

(***************************************************************************)
(* C16.  Scheduler transitions: at the end of a workLoop invocation commit *)
(* runs if and only if the pending fiber is null and a work-in-progress    *)
(* root exists; when commit returns, the work-in-progress pointer is null  *)
(* and the committed root is the root that was just completed; and an      *)
(* invocation that finds no pending fiber and no work-in-progress root     *)
(* changes no engine state and makes no host call, so a completed pass is  *)
(* committed exactly once.                                                 *)
(***************************************************************************)
C16_SchedulerTransitions ==
  [][last'.op = "workLoop" =>
       /\ last'.commit <=> (nextWip' = Null /\ wipRoot # Null)
       /\ (last'.commit /\ last'.err = "none") =>
            /\ wipRoot' = Null /\ nextWip' = Null
            /\ flushed' = wipRoot
            /\ commits' = commits + 1
       /\ ~last'.commit => (flushed' = flushed /\ wipRoot' = wipRoot /\ commits' = commits)
       /\ (nextWip = Null /\ wipRoot = Null) =>
            /\ ~last'.commit
            /\ UNCHANGED <<fibers, doms, flushed, wipRoot, nextWip, deletions, log,
                           processed, commits, scheduled>>]_vars

\* an invocation that found nothing to do, after the second commit
C16_Witness ==
  /\ last.op = "workLoop" /\ ~last.commit /\ last.err = "none"
  /\ commits = 2
  /\ wipRoot = Null /\ nextWip = Null
  /\ flushed # Null /\ flushed # prevRoot

(***************************************************************************)
(* C17.  createElement(type, props, ...children) returns an element of     *)
(* the given type whose props are the given props plus children: one       *)
(* entry per child argument, in order, where every child that is not an    *)
(* element (a string, a number, and also null) is replaced by a text       *)
(* element of kind TEXT_ELEMENT whose nodeValue is that child and whose    *)
(* children list is empty.                                                 *)
(***************************************************************************)
\* a child argument that is an element already
IsElement(x) == x.type \notin {"#null", "#prim"}

C17_CreateElement ==
  [][last'.op = "createElement" =>
       /\ app'.type = app.type
       /\ app'.props = app.props
       /\ Len(app'.kids) = Len(app.kids)
       /\ \A i \in 1..Len(app.kids) :
            IF IsElement(app.kids[i]) THEN app'.kids[i] = app.kids[i]
            ELSE /\ app'.kids[i].type = "TEXT_ELEMENT"
                 /\ app'.kids[i].kids = <<>>
                 /\ app'.kids[i].props["nodeValue"] = app.kids[i].props["nodeValue"]]_vars

(***************************************************************************)
(* C18.  Advisory budget: every workLoop invocation that starts with a     *)
(* pending fiber and returns has processed at least one fiber completely   *)
(* before the remaining time is looked at, even when timeRemaining() is    *)
(* below 1 from the start; it stops after the first fiber whose            *)
(* completion leaves timeRemaining() < 1; and when timeRemaining() stays   *)
(* >= 1 it processes the whole remaining pass and commits in the same      *)
(* invocation.  budget is the number of the first timeRemaining() call     *)
(* that answers less than 1, 0 when none does.                             *)
(***************************************************************************)
C18_AdvisoryBudget ==
  [][\A budget \in Budgets :
       (WorkLoop(budget) /\ nextWip # Null /\ last'.err = "none") =>
         LET units == Len(processed') - Len(processed)
         IN /\ units >= 1
            /\ processed = SubSeq(processed', 1, Len(processed))
            /\ budget > 0 => \/ units = budget
                             \/ units < budget /\ nextWip' = Null
            /\ budget = 0 => nextWip' = Null
            /\ nextWip' = Null => last'.commit]_vars

\* an invocation that stopped after one fiber with the pass unfinished
C18_Witness ==
  /\ last.op = "workLoop" /\ ~last.commit /\ last.err = "none"
  /\ wipRoot # Null /\ nextWip # Null
  /\ PassProcessed(wipRoot) = <<wipRoot>>
  /\ commits = 1

(***************************************************************************)
(* C19.  Commit of an UPDATE fiber applies only the prop delta: given a    *)
(* host node whose attributes and listeners match the previous             *)
(* generation's props, after updateDom the node's plain attributes are     *)
(* exactly the new non-children, non-event props and its listeners are     *)
(* exactly the new event props, each once; a key whose value is the same   *)
(* in both generations causes no host call; and a listener is removed      *)
(* only if its key is absent from the new props or its value changed.      *)
(***************************************************************************)
C19_UpdateDomDelta ==
  last.op = "updateDom" =>
    LET prevProps == fibers[fibers[2].alt].props
        nextProps == fibers[2].props
        dom == doms[fibers[2].dom]
    IN /\ last.err = "none"
       /\ dom.attrs = [k \in Keys |-> IF isProperty(k) THEN nextProps[k] ELSE Undefined]
       /\ dom.listeners = {<<getEventType(k), nextProps[k]>> :
                             k \in {e \in Keys : isEvent(e) /\ nextProps[e] # Undefined}}
       /\ \A i \in 1..Len(log) :
            /\ log[i].node = fibers[2].dom
            /\ prevProps[log[i].key] # nextProps[log[i].key]
            /\ log[i].op = "removeListener" =>
                 /\ log[i].val = prevProps[log[i].key]
                 /\ \/ nextProps[log[i].key] = Undefined
                    \/ nextProps[log[i].key] # prevProps[log[i].key]
            /\ \A j \in 1..Len(log) : log[j] = log[i] => j = i

\* a changed listener, a dropped attribute and an unchanged attribute
C19_Witness ==
  /\ last.op = "updateDom"
  /\ fibers[1].props["onClick"] = 1 /\ fibers[2].props["onClick"] = 2
  /\ fibers[1].props["id"] = 1 /\ fibers[2].props["id"] = Undefined
  /\ fibers[1].props["name"] = 1 /\ fibers[2].props["name"] = 1
  /\ Len(log) = 3
  /\ doms[2].listeners = {<<"click", 2>>}

(***************************************************************************)
(* C20.  Hook cells are rebuilt on every processing of a component fiber:  *)
(* the hook list is reset, the i-th useState call creates cell i with an   *)
(* empty queue, seeded from cell i of the previous-generation fiber and    *)
(* advanced by that cell's queued actions; so an action consumed by one    *)
(* committed pass is never applied again, and a later pass with no         *)
(* intervening dispatch on a cell returns the same value as the previous   *)
(* committed pass.                                                         *)
(***************************************************************************)
\* the fiber at the place of f of the committed tree in the tree that the
\* last commit replaced, Null when that place holds another kind there
Previously(f) ==
  LET now == PreOrder(fibers, flushed)
      before == PreOrder(fibers, prevRoot)
      k == CHOOSE i \in 1..Len(now) : now[i] = f
  IN IF k <= Len(before) /\ fibers[before[k]].type = fibers[f].type
     THEN before[k] ELSE Null

\* every cell starts with an empty queue and holds what was dispatched on it
\* since; its value is the previous generation's value advanced by the
\* actions queued there when the fiber was processed, or the initial value
CellsRebuilt ==
  \A f \in 1..Len(fibers) :
    (isFunction(fibers[f].type) /\ f \in Range(processed)) =>
      LET inits == HookInits(fibers[f].type, fibers[f].props)
          alt == fibers[f].alt
      IN /\ Len(fibers[f].hooks) = Len(inits)
         /\ \A i \in 1..Len(inits) :
              /\ fibers[f].hooks[i].queue = DispatchedOn(f, i)
              /\ IF alt = Null THEN fibers[f].hooks[i].state = inits[i]
                 ELSE \E n \in 0..Len(fibers[alt].hooks[i].queue) :
                        fibers[f].hooks[i].state =
                          FoldLeft(SubSeq(fibers[alt].hooks[i].queue, 1, n),
                                   fibers[alt].hooks[i].state)

C20_HookCells ==
  /\ CellsRebuilt
  /\ (Committed /\ prevRoot # Null) =>
       \A f \in Below(fibers, flushed) :
         (isFunction(fibers[f].type) /\ Previously(f) # Null) =>
           \A i \in 1..Len(fibers[f].hooks) :
             DispatchedOn(Previously(f), i) = <<>> =>
               fibers[f].hooks[i].state = fibers[Previously(f)].hooks[i].state

(***************************************************************************)
(* C21.  A dispatch made while a pass is in progress abandons that pass    *)
(* and starts a new one from the current committed root: the new root is   *)
(* a fresh fiber whose previous generation is the committed root and it    *)
(* is the pending fiber.  The host nodes that an abandoned pass created    *)
(* are never attached under the container by a later commit and are never  *)
(* the host node of a fiber of a committed tree.  (Dispatch calls that     *)
(* return: a committed root exists.)                                       *)
(***************************************************************************)
RootFibers == {f \in 1..Len(fibers) : fibers[f].type = "#root"}

\* the roots whose pass was in progress when a dispatch replaced it: the
\* root made by a dispatch has the committed root as previous generation,
\* so the root made just before it was not committed when it is another one
AbandonedByDispatch ==
  {r \in RootFibers :
     \E d \in RootFibers :
       /\ d > r /\ ~(\E m \in RootFibers : r < m /\ m < d)
       /\ fibers[d].alt # Null /\ fibers[d].alt # r}

\* the host nodes created by the pass of root r
Materialized(r) ==
  {fibers[f].dom : f \in {g \in Below(fibers, r) \ {r} :
                            fibers[g].effectTag = "PLACEMENT" /\ fibers[g].dom # Null}}

LeftoversHarmless ==
  \A r \in AbandonedByDispatch :
    \A n \in Materialized(r) :
      /\ n \notin Attached(doms, Container)
      /\ flushed # Null => \A g \in Below(fibers, flushed) : fibers[g].dom # n

C21_AbandonedPass ==
  [][/\ (last'.op = "dispatch" /\ last'.err = "none" /\ wipRoot # Null) =>
          /\ wipRoot' = Len(fibers') /\ wipRoot' > Len(fibers)
          /\ nextWip' = wipRoot'
          /\ fibers'[wipRoot'].alt = flushed
          /\ fibers'[wipRoot'].child = Null
          /\ flushed' = flushed
     /\ LeftoversHarmless']_vars

\* a pass that created a host node was abandoned by a dispatch, and the
\* pass that replaced it is committed
C21_Witness ==
  /\ Committed /\ commits = 2
  /\ \E r \in AbandonedByDispatch :
       /\ Materialized(r) # {}
       /\ r < flushed

(***************************************************************************)
(* C22.  No fiber of the work-in-progress tree is tagged DELETION: every   *)
(* non-root fiber of the tree being committed is tagged PLACEMENT or       *)
(* UPDATE, an UPDATE fiber has a previous generation of the same kind      *)
(* whose host node it shares, and commit reaches a fiber tagged DELETION   *)
(* only as an entry of the pending deletions, never by walking child or    *)
(* sibling pointers.                                                       *)
(***************************************************************************)
\* the tree of the pass in progress, or of the pass that commit was called on
PassRoot ==
  IF wipRoot # Null THEN wipRoot
  ELSE IF last.op = "workLoop" /\ last.commit THEN flushed ELSE Null

WipTreeTags ==
  PassRoot # Null =>
    \A f \in Below(fibers, PassRoot) \ {PassRoot} :
      /\ fibers[f].effectTag \in {"PLACEMENT", "UPDATE"}
      /\ fibers[f].effectTag = "UPDATE" =>
           /\ fibers[f].alt # Null
           /\ fibers[fibers[f].alt].type = fibers[f].type
           /\ fibers[fibers[f].alt].dom = fibers[f].dom

\* the fibers that commitNode(fiber) goes on to through fiber.child and
\* fiber.sibling
WalkedFrom(fiber) ==
  Range(PreOrder(fibers, fibers[fiber].child))
    \cup Range(PreOrder(fibers, fibers[fiber].sibling))

DeletionsOnlyByList ==
  (last.op = "workLoop" /\ last.commit) =>
    /\ \A d \in Range(deletions) :
         \A g \in WalkedFrom(d) : fibers[g].effectTag # "DELETION"
    /\ \A g \in Below(fibers, PassRoot) : fibers[g].effectTag # "DELETION"

C22_NoDeletionInTree == WipTreeTags /\ DeletionsOnlyByList

(***************************************************************************)
(* C23.  A fiber that reaches commitNode with an effect tag that is none   *)
(* of PLACEMENT, UPDATE, DELETION or absent is surfaced as an error: the   *)
(* call records or raises an error and does not skip the fiber silently.   *)
(***************************************************************************)
C23_IllegalTagSurfaced ==
  (last.op = "commitNode"
     /\ fibers[nextWip].effectTag \notin {"PLACEMENT", "UPDATE", "DELETION", "NONE"})
    => last.err # "none"

(***************************************************************************)
(* C24.  README sample flow, step 4, as written: at the commit that ends   *)
(* the first render pass, every node has the UPDATE effect tag, isNew is   *)
(* true for every prop of every node, and so every prop is applied to its  *)
(* host node.                                                              *)
(***************************************************************************)
FirstCommit == Committed /\ commits = 1

\* the fibers of the committed tree that have a host node of their own
HostFibers ==
  {f \in Below(fibers, flushed) \ {flushed} : ~isFunction(fibers[f].type)}

\* isNew({}, props)(key) for every key of the props of every node, and the
\* host node carries every prop
AllPropsApplied ==
  \A f \in HostFibers :
    /\ fibers[f].dom # Null
    /\ \A k \in Range(ObjectKeys(fibers[f].props)) : isNew(NoProps, fibers[f].props, k)
    /\ doms[fibers[f].dom].attrs
         = [k \in Keys |-> IF isProperty(k) THEN fibers[f].props[k] ELSE Undefined]
    /\ doms[fibers[f].dom].listeners
         = {<<getEventType(k), fibers[f].props[k]>> :
              k \in {e \in Keys : isEvent(e) /\ fibers[f].props[e] # Undefined}}

Max(a, b) == IF a >= b THEN a ELSE b

C25_CursorAdvances ==
  last.op = "part_001 reconcileChildren" =>
    /\ last.err = "none"
    /\ last.iterations = Max(Len(ReconElements), Len(ReconOld))

(***************************************************************************)
(* C26.  Abandoning a pass is invisible to the next commit: when a         *)
(* dispatch has interrupted a pass that had processed some fibers, the     *)
(* commit of the restarted pass makes the same host calls (same calls,     *)
(* same nodes, same order) and leaves the same host tree as the run in     *)
(* which the abandoned pass processed no fiber: no effect tag written on   *)
(* a fiber of the committed generation, no deletion entry and no hook      *)
(* cell of the abandoned pass has an influence.                            *)
(***************************************************************************)
\* the roots made after the committed root that the pass of root r starts
\* from and before r: the passes that were abandoned
AbandonedBefore(r) == {a \in RootFibers : fibers[r].alt < a /\ a < r}

FirstAbandoned(r) == CHOOSE a \in AbandonedBefore(r) : \A b \in AbandonedBefore(r) : a <= b

\* the tag that reconcileChildren gave a fiber when it made it
CreationTag(f) == IF fibers[f].alt # Null THEN "UPDATE" ELSE "PLACEMENT"

\* the fiber heap had the abandoned passes processed nothing: their fibers
\* are not there, the fibers of the committed tree carry the tags they were
\* made with, and the root of the pass is as setState made it
CleanFibers(r) ==
  LET a == FirstAbandoned(r)
      committed == Below(fibers, fibers[r].alt) \ {fibers[r].alt}
  IN [i \in 1..a |->
        IF i = a THEN setStateRoot(fibers, fibers[r].alt)
        ELSE IF i \in committed THEN [fibers[i] EXCEPT !.effectTag = CreationTag(i)]
        ELSE fibers[i]]

\* the host nodes that existed before the abandoned passes created any
CleanDoms(r) ==
  LET made == {fibers[f].dom : f \in {g \in FirstAbandoned(r)..Len(fibers) :
                   fibers[g].effectTag = "PLACEMENT" /\ fibers[g].dom # Null}}
      n == IF made = {} THEN Len(doms)
           ELSE (CHOOSE d \in made : \A e \in made : d <= e) - 1
  IN SubSeq(doms, 1, n)

\* the whole pass and its commit on that heap
CleanRun(r) ==
  LET S0 == [fibers |-> CleanFibers(r), doms |-> CleanDoms(r), deletions |-> <<>>,
             wipFn |-> Null, hookIndex |-> Null, next |-> FirstAbandoned(r),
             processed |-> <<>>, err |-> "none"]
      S1 == runUnits(S0, 0, 0)
  IN IF S1.err = "none"
     THEN commit(S1.fibers, S1.doms, S1.deletions, FirstAbandoned(r))
     ELSE [doms |-> S1.doms, log |-> <<>>, err |-> S1.err]

\* host calls with each node named by its tag and each listener by its event
LogShape(l, ds) ==
  [i \in 1..Len(l) |->
     [op |-> l[i].op, node |-> ds[l[i].node].tag, key |-> l[i].key,
      val |-> IF isEvent(l[i].key) THEN Undefined ELSE l[i].val,
      child |-> IF l[i].child = Null THEN "" ELSE ds[l[i].child].tag]]

\* the pass of the work-in-progress root replaced a pass that had
\* processed some fiber
Restarted ==
  /\ wipRoot # Null /\ fibers[wipRoot].alt # Null
  /\ \E a \in AbandonedBefore(wipRoot) :
       \E f \in Range(processed) : a <= f /\ f < wipRoot

C26_AbandonInvisible ==
  [][(last'.op = "workLoop" /\ last'.commit /\ Restarted) =>
       \E R \in {CleanRun(wipRoot)} :
         /\ R.err = last'.err
         /\ LogShape(R.log, R.doms) = LogShape(log', doms')
         /\ HostShape(R.doms, Container) = HostShape(doms', Container)]_vars

(***************************************************************************)
(* C27.  Commit applies each effect exactly once and only to the fibers    *)
(* of the pass being committed: it calls removeChild exactly once for      *)
(* each fiber of the pending deletions, it applies no effect to any other  *)
(* fiber of the previous generation (it does not act on the children or    *)
(* siblings of a deleted fiber), so no host node is removed twice, no      *)
(* removed host node is appended again, and no host call fails.            *)
(***************************************************************************)
\* the host node that commitDeletion removes for a deleted fiber
DeletedNode(d) == fibers[HostDescendant(fibers, d)].dom

C27_EffectsOnce ==
  (last.op = "workLoop" /\ last.commit) =>
    /\ last.err = "none"
    /\ Len(Removed) = Len(deletions)
    /\ \A d \in Range(deletions) :
         Cardinality({i \in 1..Len(log) :
                        log[i].op = "removeChild" /\ log[i].child = DeletedNode(d)}) = 1
    /\ \A i \in 1..Len(log) : \A j \in 1..Len(log) :
         (i < j /\ log[i].op = "removeChild") =>
           ~(log[j].op \in {"removeChild", "appendChild"} /\ log[j].child = log[i].child)
    /\ \A i \in 1..Len(log) :
         log[i].op = "appendChild" =>
           \E f \in Below(fibers, PassRoot) :
             fibers[f].effectTag = "PLACEMENT" /\ fibers[f].dom = log[i].child

(***************************************************************************)
(* C28.  No dispatched action is lost: every dispatch(a) made after a      *)
(* commit, on a dispatch function returned by any earlier render of a      *)
(* component that stays mounted at the same position (a render older than  *)
(* the committed one included), is applied exactly once to the value that  *)
(* the same useState call returns in the next committed pass: that value   *)
(* is the previously committed value advanced by all the actions           *)
(* dispatched since, in call order.                                        *)
(***************************************************************************)
\* the earlier generations of a fiber
RECURSIVE AltChain(_)
AltChain(f) == IF fibers[f].alt = Null THEN {} ELSE {fibers[f].alt} \cup AltChain(fibers[f].alt)

\* g is an earlier render of the component at the position of f: a previous
\* generation of f, or a render of an abandoned pass made from one
EarlierRender(g, f) ==
  \/ g \in AltChain(f)
  \/ g # f /\ fibers[g].alt # Null /\ fibers[g].alt \in AltChain(f)

\* the actions dispatched on cell i of the component of f since the commit
\* before the last one, in call order
ActionsSince(f, i) ==
  LET calls == SelectSeq(disp, LAMBDA d : /\ d.index = i
                                           /\ d.commits = commits - 1
                                           /\ d.commits >= 1
                                           /\ EarlierRender(d.fiber, f))
  IN [k \in 1..Len(calls) |-> calls[k].action]

C28_NoActionLost ==
  (Committed /\ prevRoot # Null /\ fibers[flushed].alt = prevRoot) =>
    \A f \in Below(fibers, flushed) :
      (isFunction(fibers[f].type) /\ fibers[f].alt # Null) =>
        \A i \in 1..Len(fibers[f].hooks) :
          fibers[f].hooks[i].state
            = FoldLeft(ActionsSince(f, i), fibers[fibers[f].alt].hooks[i].state)

(***************************************************************************)
(* C29.  After every commit the ordered list of host children of each      *)
(* host node is the ordered list of the host nodes of the children of its  *)
(* fiber in the committed tree (element order); in particular a child      *)
(* whose kind is replaced at a position that is not the last keeps its     *)
(* position in the host.                                                   *)
(***************************************************************************)
\* the host nodes of a sibling chain, in order, a component fiber standing
\* for the host nodes of its own children
RECURSIVE HostNodes(_, _)
HostNodes(fs, f) ==
  IF f = Null THEN <<>>
  ELSE (IF fs[f].dom # Null THEN <<fs[f].dom>> ELSE HostNodes(fs, fs[f].child))
       \o HostNodes(fs, fs[f].sibling)

C29_HostOrder ==
  Committed =>
    \A p \in Below(fibers, flushed) :
      fibers[p].dom # Null =>
        doms[fibers[p].dom].kids = HostNodes(fibers, fibers[p].child)

(***************************************************************************)
(* C30.  Whenever commit runs, the pending deletions are exactly the old   *)
(* fibers that the reconciliation of the pass being committed tagged       *)
(* DELETION, each once: no entry of an earlier committed or abandoned      *)
(* pass is committed again, whether the pass was started by dispatch or    *)
(* by render().                                                            *)
(***************************************************************************)
\* the old fibers that the pass of root r dropped: the children of the
\* previous generation of a fiber of the pass that no fiber of the pass
\* continues
DroppedBy(r) ==
  {o \in 1..Len(fibers) :
     \E w \in Below(fibers, r) :
       /\ fibers[w].alt # Null
       /\ o \in Range(Chain(fibers, fibers[fibers[w].alt].child))
       /\ \A c \in Range(Chain(fibers, fibers[w].child)) : fibers[c].alt # o}

C30_DeletionsOfThisPass ==
  (last.op = "workLoop" /\ last.commit) =>
    /\ Range(deletions) = DroppedBy(PassRoot)
    /\ Len(deletions) = Cardinality(DroppedBy(PassRoot))
    /\ \A d \in Range(deletions) : fibers[d].effectTag = "DELETION"

(***************************************************************************)
(* C31.  Slicing independence: for a pass with no interleaved dispatch or  *)
(* render call, the committed fiber tree and the sequence of host          *)
(* mutations performed at commit are the same for every sequence of        *)
(* budgets, however the pass is split over workLoop invocations.  Stated   *)
(* step by step: an invocation that leaves the pass unfinished does not    *)
(* change what the rest of the pass, run in one invocation, builds and     *)
(* commits, and the invocation that commits builds and commits exactly     *)
(* that.                                                                   *)
(***************************************************************************)
\* what one invocation with an unlimited budget builds and commits, from
\* the engine state S of a pass of the given root
Completion(S, root) ==
  LET S1 == runUnits(S, 0, 0)
      H == IF S1.err = "none" THEN commit(S1.fibers, S1.doms, S1.deletions, root)
           ELSE [doms |-> S1.doms, log |-> <<>>, err |-> S1.err]
  IN [fibers |-> S1.fibers, deletions |-> S1.deletions,
      log |-> H.log, doms |-> H.doms, err |-> H.err]

C31_SlicingIndependence ==
  [][(last'.op = "workLoop" /\ wipRoot # Null /\ nextWip # Null
        /\ (last'.commit \/ last'.err = "none")) =>
       \E before \in {[fibers |-> fibers, doms |-> doms, deletions |-> deletions,
                        wipFn |-> wipFn, hookIndex |-> hookIndex, next |-> nextWip,
                        processed |-> processed, err |-> "none"]} :
       \E after \in {[fibers |-> fibers', doms |-> doms', deletions |-> deletions',
                       wipFn |-> wipFn', hookIndex |-> hookIndex', next |-> nextWip',
                       processed |-> processed', err |-> "none"]} :
       \E C \in {Completion(before, wipRoot)} :
         IF last'.commit
         THEN /\ fibers' = C.fibers /\ deletions' = C.deletions
              /\ log' = C.log /\ doms' = C.doms /\ last'.err = C.err
         ELSE /\ wipRoot' = wipRoot /\ nextWip' # Null
              /\ Completion(after, wipRoot) = C]_vars

\* a pass that has written a deletion, unfinished after two invocations
C31_Witness ==
  /\ last.op = "workLoop" /\ ~last.commit /\ last.err = "none"
  /\ commits = 1
  /\ wipRoot # Null /\ nextWip # Null
  /\ Len(PassProcessed(wipRoot)) >= 3
  /\ deletions # <<>>

=============================================================================
